---- MODULE Spec2Model ----
(***************************************************************************)
(* Model of the OrcaSlicer Moonraker component (src/src/orcaslicer.py):    *)
(* the endpoint handlers, the two backend proxy helpers and the slice      *)
(* post-processing (status mapping, filename sanitising, file write).      *)
(*                                                                         *)
(* Each inbound request runs as a task.  A handler runs without            *)
(* interruption up to its single `await` on a backend call, and again      *)
(* without interruption from the backend's reply to its return.            *)
(*                                                                         *)
(* Text (header values, file names) is a sequence of one-character         *)
(* strings, bytes are small integers.                                      *)
(***************************************************************************)
EXTENDS Integers, Sequences, FiniteSets, TLC

VARIABLES pc, req, calls, resp, result, fs, dirExists, writeLog

vars == <<pc, req, calls, resp, result, fs, dirExists, writeLog>>

\* ------------------------------------------------------------------------
\* Bounds of the model
\* ------------------------------------------------------------------------
MaxTasks == 2
MaxNameLen == 4
MaxBodyLen == 2

\* ------------------------------------------------------------------------
\* Program constants
\* ------------------------------------------------------------------------
VALID_PROFILE_TYPES == {"printer", "process", "filament"}

DefaultRequestTimeout == 300
SimpleTimeout == 10
UploadTimeout == 30
RenameTimeout == 10

GCODE_EXT == <<".", "g", "c", "o", "d", "e">>
SLICE_PREFIX == <<"s", "l", "i", "c", "e", "_">>
FILENAME_EQ == <<"f", "i", "l", "e", "n", "a", "m", "e", "=">>
QUOTE == "\""

\* ------------------------------------------------------------------------
\* Text helpers
\* ------------------------------------------------------------------------
SeqsUpTo(S, n) == UNION {[1..k -> S] : k \in 0..n}

EndsWith(s, suffix) ==
    /\ Len(s) >= Len(suffix)
    /\ SubSeq(s, Len(s) - Len(suffix) + 1, Len(s)) = suffix

IsSpace(c) == c \in {" ", "\t", "\n", "\r", "\f"}

\* the character class [^";\s]
NameChar(c) == c # QUOTE /\ c # ";" /\ ~IsSpace(c)

\* last index of the longest run of NameChar starting at j (j-1 when empty)
RunEnd(s, j) ==
    CHOOSE k \in (j - 1)..Len(s) :
        /\ \A m \in j..k : NameChar(s[m])
        /\ (k < Len(s) => ~NameChar(s[k + 1]))

NoMatch == [found |-> FALSE, group |-> <<>>]

\* the pattern filename="?([^";\s]+)"? anchored at position i
MatchAt(cd, i) ==
    LET j0 == i + Len(FILENAME_EQ)
        lit == /\ j0 - 1 <= Len(cd)
               /\ SubSeq(cd, i, j0 - 1) = FILENAME_EQ
        j == IF j0 <= Len(cd) /\ cd[j0] = QUOTE THEN j0 + 1 ELSE j0
        e == RunEnd(cd, j)
    IN  IF lit /\ e >= j THEN [found |-> TRUE, group |-> SubSeq(cd, j, e)]
        ELSE NoMatch

\* re.search(r'filename="?([^";\s]+)"?', cd): group 1 of the leftmost match
SearchFilename(cd) ==
    LET hits == {i \in 1..Len(cd) : MatchAt(cd, i).found}
    IN  IF hits = {} THEN NoMatch
        ELSE MatchAt(cd, CHOOSE i \in hits : \A i2 \in hits : i <= i2)

\* components of a path: the "/"-separated pieces, in order
RECURSIVE SplitSlash(_)
SplitSlash(s) ==
    IF \A i \in 1..Len(s) : s[i] # "/" THEN <<s>>
    ELSE LET i == CHOOSE k \in 1..Len(s) :
                      s[k] = "/" /\ \A m \in 1..(k - 1) : s[m] # "/"
         IN  <<SubSeq(s, 1, i - 1)>> \o SplitSlash(SubSeq(s, i + 1, Len(s)))

\* pathlib: the components of a relative path, empty and "." pieces dropped
PathParts(s) ==
    SelectSeq(SplitSlash(s), LAMBDA x : x # <<>> /\ x # <<".">>)

\* mutant of PathName: the suggested name is used as it is
PathNameRaw(filename) == filename

\* pathlib.Path(filename).name: the last component, or the empty string
\* when there is none
PathName(filename) ==
    LET parts == PathParts(filename)
    IN  IF parts = <<>> THEN <<>> ELSE parts[Len(parts)]

\* the configured output directory, as a sequence of components
GCODES_PATH == << <<"g", "c", "o", "d", "e", "s">> >>
ROOT == << <<"/">> >>

\* self.gcodes_path / filename: an absolute right operand replaces the left
OutputPath(filename) ==
    IF filename # <<>> /\ filename[1] = "/"
    THEN ROOT \o PathParts(filename)
    ELSE GCODES_PATH \o PathParts(filename)

\* headers.get(name, default)
HeadersGet(headers, name, default) ==
    IF name \in DOMAIN headers THEN headers[name] ELSE default

\* the name of the output file, from the response headers and a fresh
\* uuid4().hex[:8]
SliceFilename(headers, uuidHex) ==
    LET cd == HeadersGet(headers, "Content-Disposition", <<>>)
        match == SearchFilename(cd)
        filename == IF match.found THEN match.group
                    ELSE SLICE_PREFIX \o uuidHex \o GCODE_EXT
        name == PathName(filename)
    IN  IF EndsWith(name, GCODE_EXT) THEN name ELSE name \o GCODE_EXT

\* ------------------------------------------------------------------------
\* Values
\* ------------------------------------------------------------------------
Tasks == 1..MaxTasks

\* bytes: ASCII "0" and "x"
Byte == {48, 120}
Bodies == SeqsUpTo(Byte, MaxBodyLen)

\* json.loads(body) returns a value exactly when the body is a JSON text;
\* over Byte the only JSON text is b"0"
JsonLoads(body) ==
    IF body = <<48>> THEN [ok |-> TRUE, value |-> 0]
    ELSE [ok |-> FALSE, value |-> 0]

NoHeaders == [h \in {} |-> <<>>]
NoRecord == [kind |-> "none"]

Err(msg, status) == [kind |-> "error", msg |-> msg, status |-> status]
Ok(value) == [kind |-> "ok", value |-> value]
Uncaught(exc) == [kind |-> "uncaught", exc |-> exc]

\* ------------------------------------------------------------------------
\* Multipart builder
\* ------------------------------------------------------------------------
\* _build_multipart: the parts of the body in order (the boundary is a fresh
\* uuid, left out), and the content type
BuildMultipart(fields, file_field, file_name, file_bytes) ==
    [body |-> [fields |-> fields,
               file |-> IF file_field # "" /\ file_name # ""
                        THEN <<file_field, file_name>> ELSE <<>>,
               data |-> IF file_field # "" THEN file_bytes ELSE <<>>],
     content_type |-> "multipart/form-data"]

\* ------------------------------------------------------------------------
\* Proxy helpers
\* ------------------------------------------------------------------------
\* `timeout or default`
TimeoutOr(timeout, default) == IF timeout = 0 THEN default ELSE timeout

\* _proxy_simple up to its await: the call handed to Moonraker's HttpClient
ProxySimpleCall(method, path, timeout) ==
    [client |-> "http_client", method |-> method, path |-> path,
     timeout |-> TimeoutOr(timeout, SimpleTimeout),
     content_type |-> "", body |-> NoRecord]

\* _proxy_simple after its await: what the handler returns or raises
ProxySimpleResult(outcome) ==
    IF outcome.kind = "exception"
    THEN Err("orcaslicer-web unreachable", 503)
    ELSE IF outcome.has_error
         THEN Err("orcaslicer-web error", outcome.status_code)
         ELSE IF outcome.json_ok THEN Ok(outcome.json)
              ELSE Uncaught("JSONDecodeError")

\* _send_multipart up to its await: the request handed to Tornado
SendMultipartCall(method, path, body, content_type, timeout) ==
    [client |-> "raw_client", method |-> method, path |-> path,
     timeout |-> TimeoutOr(timeout, DefaultRequestTimeout),
     content_type |-> content_type, body |-> body]

\* mutant of SendMultipartResult: a failed fetch is handed back as a
\* response of status 599 instead of being raised
SendMultipartResultNoRaise(outcome) ==
    [raised |-> FALSE, error |-> [kind |-> "none"],
     response |-> IF outcome.kind = "exception"
                  THEN [kind |-> "response", code |-> 599,
                        headers |-> [h \in {} |-> <<>>], body |-> <<>>]
                  ELSE outcome]

\* _send_multipart after its await: an exception of fetch becomes the 503
\* error, anything else is returned to the caller as it is
SendMultipartResult(outcome) ==
    IF outcome.kind = "exception"
    THEN [raised |-> TRUE, error |-> Err("orcaslicer-web unreachable", 503),
          response |-> NoRecord]
    ELSE [raised |-> FALSE, error |-> NoRecord, response |-> outcome]

\* ------------------------------------------------------------------------
\* Validation
\* ------------------------------------------------------------------------
\* mutant of ValidProfileType: the collection name passes as a category
ValidProfileTypeLoose(profile_type) ==
    profile_type \in VALID_PROFILE_TYPES \cup {"profiles"}

ValidProfileType(profile_type) == profile_type \in VALID_PROFILE_TYPES

\* _validate_profile_type: the error raised, or NoRecord
ValidateProfileType(profile_type) ==
    IF ~ValidProfileType(profile_type)
    THEN Err("Invalid profile type", 400)
    ELSE NoRecord

\* web_request.get_str(key) without default raises when the argument is
\* missing
MissingArg(r, keys) == \E k \in keys : k \notin r.args
NoDataForArgument == Err("No data for argument", 400)

\* ------------------------------------------------------------------------
\* Task steps
\* ------------------------------------------------------------------------
LastCall(t) == calls[t][Len(calls[t])]

\* the handler of task t receives request r
Accept(t, r) ==
    /\ pc[t] = "idle"
    /\ req' = [req EXCEPT ![t] = r]

\* the handler issues a backend call and suspends at its await
Suspend(t, call) ==
    /\ pc' = [pc EXCEPT ![t] = "await"]
    /\ calls' = [calls EXCEPT ![t] = Append(@, call)]
    /\ UNCHANGED <<resp, result>>

\* the handler returns or raises without (further) backend call
Return(t, res) ==
    /\ pc' = [pc EXCEPT ![t] = "done"]
    /\ result' = [result EXCEPT ![t] = res]

\* task t is suspended in handler `endpoint` on a call of the given client
Awaiting(t, endpoint, client) ==
    /\ pc[t] = "await"
    /\ req[t].endpoint \in endpoint
    /\ LastCall(t).client = client

\* the backend call of task t completes with outcome
Resume(t, outcome) == resp' = [resp EXCEPT ![t] = outcome]

\* ------------------------------------------------------------------------
\* Health, status
\* ------------------------------------------------------------------------
handle_health(t, requests) ==
    \E r \in requests :
    /\ r.endpoint = "health"
    /\ Accept(t, r)
    /\ Suspend(t, ProxySimpleCall("GET", <<"api", "health">>, 0))
    /\ UNCHANGED <<fs, dirExists, writeLog>>

handle_status(t, requests) ==
    \E r \in requests :
    /\ r.endpoint = "status"
    /\ Accept(t, r)
    /\ Suspend(t, ProxySimpleCall("GET", <<"api", "slice", "status">>, 0))
    /\ UNCHANGED <<fs, dirExists, writeLog>>

\* `return await self._proxy_simple(...)` of any handler, after the await
Endpoints == {"health", "status", "profiles_collection", "profile_item",
              "slice"}

proxy_simple_return(t, outcomes) ==
    /\ Awaiting(t, Endpoints, "http_client")
    /\ \E outcome \in outcomes :
           /\ Resume(t, outcome)
           /\ Return(t, ProxySimpleResult(outcome))
           /\ UNCHANGED <<req, calls, fs, dirExists, writeLog>>

\* ------------------------------------------------------------------------
\* Profile list and upload
\* ------------------------------------------------------------------------
UploadFileName == <<"p", ".", "j", "s", "o", "n">>
UploadContent == <<120>>

\* _handle_profiles_collection up to its await: the error raised before
\* any backend call, or the backend call made
ProfilesCollectionStep(r) ==
    LET invalid == ValidateProfileType(r.profile_type)
        path == <<"api", "profiles", r.profile_type>>
        mp == BuildMultipart(<<>>, "file", UploadFileName, UploadContent)
    IN  IF invalid.kind = "error" THEN [raise |-> invalid, call |-> NoRecord]
        ELSE IF r.action = "GET"
        THEN [raise |-> NoRecord, call |-> ProxySimpleCall("GET", path, 0)]
        ELSE IF MissingArg(r, {"filename", "content"})
        THEN [raise |-> NoDataForArgument, call |-> NoRecord]
        ELSE [raise |-> NoRecord,
              call |-> SendMultipartCall("POST", path, mp.body,
                                         mp.content_type, UploadTimeout)]

handle_profiles_collection(t, requests) ==
    \E r \in requests :
    /\ r.endpoint = "profiles_collection"
    /\ Accept(t, r)
    /\ LET step == ProfilesCollectionStep(r)
       IN  IF step.raise.kind = "error"
           THEN Return(t, step.raise) /\ UNCHANGED <<calls, resp>>
           ELSE Suspend(t, step.call)
    /\ UNCHANGED <<fs, dirExists, writeLog>>

\* the rest of a profile POST handler after _send_multipart
ProfilePostResult(outcome, failed) ==
    LET sent == SendMultipartResult(outcome)
        response == sent.response
    IN  IF sent.raised THEN sent.error
        ELSE IF response.code >= 400 THEN Err(failed, response.code)
        ELSE IF JsonLoads(response.body).ok
             THEN Ok(JsonLoads(response.body).value)
             ELSE Uncaught("JSONDecodeError")

handle_profiles_collection_resume(t, outcomes) ==
    /\ Awaiting(t, {"profiles_collection"}, "raw_client")
    /\ \E outcome \in outcomes :
           /\ Resume(t, outcome)
           /\ Return(t, ProfilePostResult(outcome, "Profile upload failed"))
           /\ UNCHANGED <<req, calls, fs, dirExists, writeLog>>

\* ------------------------------------------------------------------------
\* Single profile operations
\* ------------------------------------------------------------------------
NewName == <<"x">>

\* mutant of ProfileItemPostCall: the verb follows the inbound content type
ProfileItemPostCallByType(r, api_path) ==
    IF r.content_type = "application/json"
    THEN SendMultipartCall("PATCH", api_path, [new_name |-> NewName],
                           "application/json", RenameTimeout)
    ELSE SendMultipartCall("PUT", api_path, UploadContent,
                           r.content_type, UploadTimeout)

\* the backend call of a POST to /profiles/{type}/{name}
ProfileItemPostCall(r, api_path) ==
    SendMultipartCall("PATCH", api_path, [new_name |-> NewName],
                      "application/json", RenameTimeout)

\* _handle_profile_item up to its await
ProfileItemStep(r) ==
    LET invalid == ValidateProfileType(r.profile_type)
        api_path == <<"api", "profiles", r.profile_type, r.profile_name>>
    IN  IF invalid.kind = "error" THEN [raise |-> invalid, call |-> NoRecord]
        ELSE IF r.action = "GET"
        THEN [raise |-> NoRecord,
              call |-> ProxySimpleCall("GET", api_path, 0)]
        ELSE IF r.action = "DELETE"
        THEN [raise |-> NoRecord,
              call |-> ProxySimpleCall("DELETE", api_path, 0)]
        ELSE IF MissingArg(r, {"new_name"})
        THEN [raise |-> NoDataForArgument, call |-> NoRecord]
        ELSE [raise |-> NoRecord, call |-> ProfileItemPostCall(r, api_path)]

handle_profile_item(t, requests) ==
    \E r \in requests :
    /\ r.endpoint = "profile_item"
    /\ Accept(t, r)
    /\ LET step == ProfileItemStep(r)
       IN  IF step.raise.kind = "error"
           THEN Return(t, step.raise) /\ UNCHANGED <<calls, resp>>
           ELSE Suspend(t, step.call)
    /\ UNCHANGED <<fs, dirExists, writeLog>>

handle_profile_item_resume(t, outcomes) ==
    /\ Awaiting(t, {"profile_item"}, "raw_client")
    /\ \E outcome \in outcomes :
           /\ Resume(t, outcome)
           /\ Return(t, ProfilePostResult(outcome, "Profile operation failed"))
           /\ UNCHANGED <<req, calls, fs, dirExists, writeLog>>

\* ------------------------------------------------------------------------
\* Slice
\* ------------------------------------------------------------------------
SliceArgs == {"model_filename", "model_data", "printer", "process", "filament"}
ModelFileName == <<"m", ".", "s", "t", "l">>
ModelBytes == <<120>>
UNKNOWN == <<"u", "n", "k", "n", "o", "w", "n">>

\* _handle_slice up to its await
SliceStep(r) ==
    LET mp == BuildMultipart(<<"printer", "process", "filament">>,
                             "model", ModelFileName, ModelBytes)
    IN  IF MissingArg(r, SliceArgs)
        THEN [raise |-> NoDataForArgument, call |-> NoRecord]
        ELSE IF ~r.model_ok
        THEN [raise |-> Err("Invalid base64 model data", 400),
              call |-> NoRecord]
        ELSE [raise |-> NoRecord,
              call |-> SendMultipartCall("POST", <<"api", "slice">>, mp.body,
                                         mp.content_type,
                                         DefaultRequestTimeout)]

handle_slice(t, requests) ==
    \E r \in requests :
    /\ r.endpoint = "slice"
    /\ Accept(t, r)
    /\ LET step == SliceStep(r)
       IN  IF step.raise.kind = "error"
           THEN Return(t, step.raise) /\ UNCHANGED <<calls, resp>>
           ELSE Suspend(t, step.call)
    /\ UNCHANGED <<fs, dirExists, writeLog>>

\* mutant of SliceStatusError: 409 is not told apart
SliceStatusErrorNoBusy(response) ==
    IF response.code >= 400 THEN Err("Slice failed", response.code)
    ELSE NoRecord

\* the status checks on the backend's response: the error raised, or
\* NoRecord
SliceStatusError(response) ==
    IF response.code = 409 THEN Err("Slicer is busy", 409)
    ELSE IF response.code >= 400 THEN Err("Slice failed", response.code)
    ELSE NoRecord

\* the files of a directory with one file replaced or added
FsPut(files, path, data) ==
    [q \in DOMAIN files \cup {path} |-> IF q = path THEN data ELSE files[q]]

\* gcodes_path.mkdir(parents=True, exist_ok=True)
Mkdir(exists, io) ==
    IF io.mkdir = "OSError" THEN [raised |-> TRUE, exists |-> exists]
    ELSE [raised |-> FALSE, exists |-> TRUE]

\* mutant of WriteBytes: the file is opened for appending
WriteBytesAppend(files, path, data, io) ==
    LET old == IF path \in DOMAIN files THEN files[path] ELSE <<>>
    IN  IF io.write = "open" THEN [raised |-> TRUE, files |-> files]
        ELSE IF io.write = "short"
        THEN [raised |-> TRUE,
              files |-> FsPut(files, path, old \o SubSeq(data, 1, io.n))]
        ELSE [raised |-> FALSE, files |-> FsPut(files, path, old \o data)]

\* mutant of WriteBytes: the file is opened for exclusive creation
WriteBytesExclusive(files, path, data, io) ==
    IF io.write = "open" \/ path \in DOMAIN files
    THEN [raised |-> TRUE, files |-> files]
    ELSE IF io.write = "short"
    THEN [raised |-> TRUE, files |-> FsPut(files, path, SubSeq(data, 1, io.n))]
    ELSE [raised |-> FALSE, files |-> FsPut(files, path, data)]

\* output_path.write_bytes(data): open for writing (creating or truncating
\* the file), write, close.  It fails in open and leaves the file alone, or
\* fails in write and leaves the first io.n bytes.
WriteBytes(files, path, data, io) ==
    IF io.write = "open" THEN [raised |-> TRUE, files |-> files]
    ELSE IF io.write = "short"
    THEN [raised |-> TRUE, files |-> FsPut(files, path, SubSeq(data, 1, io.n))]
    ELSE [raised |-> FALSE, files |-> FsPut(files, path, data)]

\* the value returned by a successful slice
SliceReturn(filename, response) ==
    Ok([filename |-> filename,
        size |-> Len(response.body),
        slice_time |-> HeadersGet(response.headers, "X-Slice-Time-Seconds",
                                  UNKNOWN)])

\* _handle_slice after its await: the result, and the output directory
\* and the log of completed writes after it
SliceFinish(t, outcome, uuidHex, io) ==
    LET sent == SendMultipartResult(outcome)
        response == sent.response
        status == SliceStatusError(response)
        filename == SliceFilename(response.headers, uuidHex)
        output_path == OutputPath(filename)
        made == Mkdir(dirExists, io)
        written == WriteBytes(fs, output_path, response.body, io)
        same == [fs |-> fs, dirExists |-> dirExists, writeLog |-> writeLog]
    IN  IF sent.raised THEN [result |-> sent.error] @@ same
        ELSE IF status.kind = "error" THEN [result |-> status] @@ same
        ELSE IF made.raised THEN [result |-> Uncaught("OSError")] @@ same
        ELSE IF written.raised
        THEN [result |-> Err("Failed to write GCODE file", 500),
              fs |-> written.files, dirExists |-> made.exists,
              writeLog |-> writeLog]
        ELSE [result |-> SliceReturn(filename, response),
              fs |-> written.files, dirExists |-> made.exists,
              writeLog |-> Append(writeLog,
                                  [task |-> t, path |-> output_path,
                                   data |-> response.body])]

\* values of uuid.uuid4().hex[:8]
UuidHexes == {<<"0", "0", "0", "0", "0", "0", "0", "0">>,
              <<"f", "f", "f", "f", "f", "f", "f", "f">>}

\* what the filesystem can do in the state at hand
IoPossible(outcome, io) ==
    /\ io.mkdir = "OSError" => ~dirExists
    /\ IF io.write = "short" /\ outcome.kind = "response"
       THEN io.n < Len(outcome.body)
       ELSE io.n = 0

handle_slice_resume(t, outcomes, ios) ==
    /\ Awaiting(t, {"slice"}, "raw_client")
    /\ \E outcome \in outcomes, uuidHex \in UuidHexes, io \in ios :
           /\ Resume(t, outcome)
           /\ IoPossible(outcome, io)
           /\ LET fin == SliceFinish(t, outcome, uuidHex, io)
              IN  /\ Return(t, fin.result)
                  /\ fs' = fin.fs
                  /\ dirExists' = fin.dirExists
                  /\ writeLog' = fin.writeLog
           /\ UNCHANGED <<req, calls>>

\* ------------------------------------------------------------------------
\* Inputs
\* ------------------------------------------------------------------------
ProfileTypeInputs == VALID_PROFILE_TYPES \cup {"bogus", "profiles"}
ContentTypes == {"application/json", "application/octet-stream",
                 "multipart/form-data"}

Request(endpoint, action, ptype, pname, ctype, args, model_ok) ==
    [endpoint |-> endpoint, action |-> action, profile_type |-> ptype,
     profile_name |-> pname, content_type |-> ctype,
     args |-> args, model_ok |-> model_ok]

HealthRequests == {Request("health", "GET", "", "", "", {}, TRUE)}
StatusRequests == {Request("status", "GET", "", "", "", {}, TRUE)}

CollectionRequests ==
    {Request("profiles_collection", "GET", pt, "", "", {}, TRUE) :
        pt \in ProfileTypeInputs}
    \cup {Request("profiles_collection", "POST", pt, "", ct, args, TRUE) :
            pt \in ProfileTypeInputs, ct \in ContentTypes,
            args \in {{"filename", "content"}, {"filename"}}}

ItemRequests ==
    {Request("profile_item", a, pt, "PLA", "", {}, TRUE) :
        a \in {"GET", "DELETE"}, pt \in ProfileTypeInputs}
    \cup {Request("profile_item", "POST", pt, "PLA", ct, args, TRUE) :
            pt \in ProfileTypeInputs, ct \in ContentTypes,
            args \in {{"new_name"}, {}}}

SliceRequests ==
    {Request("slice", "POST", "", "", ct, args, ok) :
        ct \in ContentTypes, args \in {SliceArgs, SliceArgs \ {"filament"}},
        ok \in BOOLEAN}

GoodSliceRequests ==
    {Request("slice", "POST", "", "", "application/json", SliceArgs, TRUE)}

\* ------------------------------------------------------------------------
\* Backend and filesystem behaviour
\* ------------------------------------------------------------------------
StatusCodes == {200, 204, 304, 400, 409, 500}

Exception == [kind |-> "exception"]

SimpleOutcomes ==
    {Exception}
    \cup {[kind |-> "response", has_error |-> TRUE, status_code |-> c,
           json_ok |-> TRUE, json |-> 0] : c \in {404, 500}}
    \cup {[kind |-> "response", has_error |-> FALSE, status_code |-> 200,
           json_ok |-> j, json |-> 0] : j \in BOOLEAN}

Response(code, headers, body) ==
    [kind |-> "response", code |-> code, headers |-> headers, body |-> body]

\* header mappings with each of the two headers absent or set
HeaderSets(cds, times) ==
    {[n \in ({"Content-Disposition"} \cap c[1])
            \cup ({"X-Slice-Time-Seconds"} \cap s[1]) |->
        IF n = "Content-Disposition" THEN c[2] ELSE s[2]] :
     c \in {<<{}, <<>>>>} \cup {<<{"Content-Disposition"}, x>> : x \in cds},
     s \in {<<{}, <<>>>>} \cup {<<{"X-Slice-Time-Seconds"}, x>> : x \in times}}

ATTACHMENT == <<"a", "t", "t", "a", "c", "h", "m", "e", "n", "t">>

\* attachment; filename=name, with or without quotes
Disposition(name, q) ==
    ATTACHMENT \o <<";", " ">> \o FILENAME_EQ
    \o (IF q THEN <<QUOTE>> ELSE <<>>) \o name
    \o (IF q THEN <<QUOTE>> ELSE <<>>)

SomeDispositions ==
    {ATTACHMENT,
     Disposition(<<"a">> \o GCODE_EXT, TRUE),
     Disposition(<<".", ".", "/", "a">>, FALSE)}

NameChars == {"a", ".", "/"}

\* header values on which the pattern stops early or does not match
EdgeDispositions ==
    {ATTACHMENT,
     FILENAME_EQ,
     FILENAME_EQ \o <<QUOTE, QUOTE>>,
     Disposition(<<"a", ";", "/", "a">>, TRUE),
     Disposition(<<"/", "a", " ", "a">>, FALSE),
     Disposition(<<>>, TRUE) \o <<";", " ">> \o FILENAME_EQ \o <<".", ".">>}

AllDispositions ==
    EdgeDispositions
    \cup {Disposition(n \o e, q) :
            n \in SeqsUpTo(NameChars, MaxNameLen),
            e \in {<<>>, GCODE_EXT}, q \in BOOLEAN}

SliceTimes == {<<"1", "2">>}

ProfileOutcomes ==
    {Exception}
    \cup {Response(c, NoHeaders, b) : c \in StatusCodes, b \in Bodies}

SliceOutcomes ==
    {Exception}
    \cup {Response(c, h, b) :
            c \in StatusCodes, h \in HeaderSets(SomeDispositions, SliceTimes),
            b \in Bodies}

IOs == [mkdir : {"ok", "OSError"}, write : {"ok", "open", "short"},
        n : 0..(MaxBodyLen - 1)]

\* the output directory before the first request: missing, empty, or
\* holding the output of an earlier slice
EarlierFile == OutputPath(<<"a">> \o GCODE_EXT)
NoFiles == [q \in {} |-> <<>>]
InitialDirs ==
    {[exists |-> FALSE, files |-> NoFiles],
     [exists |-> TRUE, files |-> NoFiles],
     [exists |-> TRUE, files |-> FsPut(NoFiles, EarlierFile, <<48, 120>>)]}

\* ------------------------------------------------------------------------
\* Specifications
\* ------------------------------------------------------------------------
Init ==
    /\ pc = [t \in Tasks |-> "idle"]
    /\ req = [t \in Tasks |-> NoRecord]
    /\ calls = [t \in Tasks |-> <<>>]
    /\ resp = [t \in Tasks |-> NoRecord]
    /\ result = [t \in Tasks |-> NoRecord]
    /\ \E d \in InitialDirs : fs = d.files /\ dirExists = d.exists
    /\ writeLog = <<>>

\* one request of any endpoint, with any reply of the backend
Next ==
    \/ handle_health(1, HealthRequests)
    \/ handle_status(1, StatusRequests)
    \/ proxy_simple_return(1, SimpleOutcomes)
    \/ handle_profiles_collection(1, CollectionRequests)
    \/ handle_profiles_collection_resume(1, ProfileOutcomes)
    \/ handle_profile_item(1, ItemRequests)
    \/ handle_profile_item_resume(1, ProfileOutcomes)
    \/ handle_slice(1, SliceRequests)
    \/ handle_slice_resume(1, SliceOutcomes, IOs)

Spec == Init /\ [][Next]_vars

\* concurrent slice requests against a working filesystem
RaceOutcomes ==
    {Response(200, h, b) :
        h \in HeaderSets({Disposition(<<"a">> \o GCODE_EXT, TRUE),
                          Disposition(<<"b">>, FALSE)}, {}),
        b \in Bodies}

WorkingIOs == {io \in IOs : io.mkdir = "ok" /\ io.write = "ok"}

NextRace ==
    \/ \E t \in Tasks : handle_slice(t, GoodSliceRequests)
    \/ \E t \in Tasks : handle_slice_resume(t, RaceOutcomes, WorkingIOs)

SpecRace == Init /\ [][NextRace]_vars

\* one successful slice, with any Content-Disposition header
NameOutcomes ==
    {Response(200, h, <<48>>) : h \in HeaderSets(AllDispositions, {})}

NextName ==
    \/ handle_slice(1, GoodSliceRequests)
    \/ handle_slice_resume(1, NameOutcomes, IOs)

SpecName == Init /\ [][NextName]_vars

\* ------------------------------------------------------------------------
\* Properties
\* ------------------------------------------------------------------------
Done(t) == pc[t] = "done"
SliceTask(t) == pc[t] # "idle" /\ req[t].endpoint = "slice"
ProfileTask(t) ==
    pc[t] # "idle" /\ req[t].endpoint \in {"profiles_collection", "profile_item"}
GotResponse(t) == Done(t) /\ resp[t].kind = "response"
ChildOfOutputDir(name) == GCODES_PATH \o <<name>>

\* C1: a profile request whose category is outside {printer, process,
\* filament} ends with a 400 error, and no backend call of either client
\* was issued for it.
C1_InvalidCategoryRejected ==
    \A t \in Tasks :
        (/\ ProfileTask(t)
         /\ req[t].profile_type \notin {"printer", "process", "filament"})
        => /\ Done(t)
           /\ result[t].kind = "error"
           /\ result[t].status = 400
           /\ calls[t] = <<>>

C1_Witness ==
    \E t \in Tasks :
        /\ Done(t)
        /\ req[t].endpoint = "profile_item"
        /\ req[t].action = "DELETE"
        /\ req[t].profile_type = "profiles"
        /\ result[t] = Err("Invalid profile type", 400)
        /\ calls[t] = <<>>

\* C2: a slice whose backend response has status 409 ends with the
\* "Slicer is busy" error of status 409, whatever the body and headers.
C2_BusyOn409 ==
    \A t \in Tasks :
        (SliceTask(t) /\ GotResponse(t) /\ resp[t].code = 409)
        => result[t] = Err("Slicer is busy", 409)

C2_Witness ==
    \E t \in Tasks :
        /\ SliceTask(t) /\ GotResponse(t)
        /\ resp[t].code = 409
        /\ resp[t].body # <<>>
        /\ "Content-Disposition" \in DOMAIN resp[t].headers
        /\ result[t] = Err("Slicer is busy", 409)

\* C3: a slice whose backend response has a status outside 200..299 other
\* than 409 ends with the "Slice failed" error carrying that status, and a
\* slice succeeds only on a status in 200..299.
C3_NonSuccessIsSliceFailed ==
    \A t \in Tasks :
        (SliceTask(t) /\ GotResponse(t))
        => /\ (resp[t].code \notin 200..299 /\ resp[t].code # 409)
                => result[t] = Err("Slice failed", resp[t].code)
           /\ result[t].kind = "ok" => resp[t].code \in 200..299

C5_TransportFailureIs503 ==
    \A t \in Tasks :
        (/\ Done(t)
         /\ calls[t] # <<>>
         /\ calls[t][Len(calls[t])].client = "raw_client"
         /\ resp[t].kind = "exception")
        => result[t] = Err("orcaslicer-web unreachable", 503)

C5_Witness ==
    \E t \in Tasks :
        /\ SliceTask(t) /\ Done(t)
        /\ Len(calls[t]) = 1
        /\ calls[t][1].client = "raw_client"
        /\ resp[t].kind = "exception"
        /\ result[t].kind = "error"
        /\ result[t].status = 503

\* a direct child of the output directory: one more component, which is a
\* file name
DirectChild(path) ==
    /\ Len(path) = Len(GCODES_PATH) + 1
    /\ SubSeq(path, 1, Len(GCODES_PATH)) = GCODES_PATH
    /\ LET n == path[Len(path)]
       IN  /\ n \notin {<<>>, <<".">>, <<".", ".">>}
           /\ \A i \in 1..Len(n) : n[i] # "/"

\* the text after the last "/" of s
AfterLastSlash(s) ==
    LET slashes == {i \in 1..Len(s) : s[i] = "/"}
        last == CHOOSE i \in slashes : \A k \in slashes : k <= i
    IN  IF slashes = {} THEN s ELSE SubSeq(s, last + 1, Len(s))

\* C6: whatever Content-Disposition the backend sends with a successful
\* slice, every file the slice writes is a direct child of the output
\* directory with a name ending in ".gcode"; a suggested name with
\* directory components is reduced to its last component.
C6_OutputStaysInDirectory ==
    /\ \A p \in DOMAIN fs : DirectChild(p) /\ EndsWith(p[Len(p)], GCODE_EXT)
    /\ \A i \in 1..Len(writeLog) :
           /\ DirectChild(writeLog[i].path)
           /\ EndsWith(writeLog[i].path[Len(writeLog[i].path)], GCODE_EXT)
    /\ \A t \in Tasks :
           (SliceTask(t) /\ GotResponse(t) /\ result[t].kind = "ok")
           => LET m == SearchFilename(
                           HeadersGet(resp[t].headers,
                                      "Content-Disposition", <<>>))
                  piece == AfterLastSlash(m.group)
              IN  (m.found /\ piece \notin {<<>>, <<".">>})
                  => result[t].value.filename
                       = IF EndsWith(piece, GCODE_EXT) THEN piece
                         ELSE piece \o GCODE_EXT

C6_Witness ==
    \E t \in Tasks :
        /\ SliceTask(t) /\ GotResponse(t)
        /\ "Content-Disposition" \in DOMAIN resp[t].headers
        /\ resp[t].headers["Content-Disposition"]
             = Disposition(<<".", ".", "/", "a">>, TRUE)
        /\ result[t].kind = "ok"
        /\ result[t].value.filename = <<"a">> \o GCODE_EXT
        /\ ChildOfOutputDir(<<"a">> \o GCODE_EXT) \in DOMAIN fs

\* what a successful slice of task t reports and leaves on disk
C7_SuccessState(t) ==
    LET v == result[t].value
        p == ChildOfOutputDir(v.filename)
        mine == {i \in 1..Len(writeLog) : writeLog[i].task = t}
    IN  /\ p \in DOMAIN fs
        /\ fs[p] = resp[t].body
        /\ v.size = Len(resp[t].body)
        /\ v.slice_time
             = IF "X-Slice-Time-Seconds" \in DOMAIN resp[t].headers
               THEN resp[t].headers["X-Slice-Time-Seconds"]
               ELSE <<"u", "n", "k", "n", "o", "w", "n">>
        /\ Cardinality(mine) = 1
        /\ \A i \in mine : writeLog[i].path = p /\ writeLog[i].data = resp[t].body

\* the step in which a slice of task t returns successfully changes one
\* file only
C7_SuccessStep(t) ==
    (/\ pc[t] = "await"
     /\ req[t].endpoint = "slice"
     /\ pc'[t] = "done"
     /\ result'[t].kind = "ok")
    => LET p == ChildOfOutputDir(result'[t].value.filename)
       IN  /\ DOMAIN fs' = DOMAIN fs \cup {p}
           /\ \A q \in DOMAIN fs : q # p => fs'[q] = fs[q]

\* C7: a slice that returns successfully has written exactly one file, at
\* {output_dir}/{filename} for the filename it returns, holding the whole
\* response body; size is the length of that body and slice_time the
\* X-Slice-Time-Seconds header or "unknown".
C7_SuccessWritesBody ==
    /\ [](\A t \in Tasks :
             (SliceTask(t) /\ Done(t) /\ result[t].kind = "ok")
             => C7_SuccessState(t))
    /\ [][\A t \in Tasks : C7_SuccessStep(t)]_vars

C7_Witness ==
    \E t \in Tasks :
        /\ SliceTask(t) /\ GotResponse(t)
        /\ result[t].kind = "ok"
        /\ Len(resp[t].body) = 2
        /\ DOMAIN resp[t].headers = {"Content-Disposition",
                                     "X-Slice-Time-Seconds"}
        /\ result[t].value.slice_time = <<"1", "2">>
        /\ result[t].value.filename = <<"a">> \o GCODE_EXT
        /\ fs[EarlierFile] = resp[t].body
        /\ fs[EarlierFile] # <<48, 120>>

\* position of the write of task t in the log of completed writes
WriteIndex(t) == CHOOSE i \in 1..Len(writeLog) : writeLog[i].task = t

\* tasks that returned successfully with the same filename as task t
SameName(t) ==
    {u \in Tasks : /\ Done(u)
                   /\ result[u].kind = "ok"
                   /\ result[u].value.filename = result[t].value.filename}

\* C8: concurrent slices with successful backend responses all return
\* success; a file written by one call only holds that call's body, and a
\* file written by several holds the body of the call that wrote last.
C8_LastWriteWins ==
    \A t \in Tasks :
        Done(t)
        => /\ result[t].kind = "ok"
           /\ result[t].value.size = Len(resp[t].body)
           /\ LET last == CHOOSE u \in SameName(t) :
                              \A w \in SameName(t) :
                                  WriteIndex(w) <= WriteIndex(u)
              IN  fs[ChildOfOutputDir(result[t].value.filename)]
                    = resp[last].body

C8_Witness ==
    \E t, u \in Tasks :
        /\ t # u
        /\ Done(t) /\ Done(u)
        /\ result[t].kind = "ok" /\ result[u].kind = "ok"
        /\ result[t].value.filename = result[u].value.filename
        /\ WriteIndex(t) < WriteIndex(u)
        /\ fs[ChildOfOutputDir(result[t].value.filename)] = resp[u].body
        /\ result[t].value.size
             # Len(fs[ChildOfOutputDir(result[t].value.filename)])

\* C9: after a backend response with a status in 200..299, a slice either
\* succeeds or, on any filesystem fault, ends with the 500 "Failed to write
\* GCODE file" error.
C9_FsFaultIsWriteFailed ==
    \A t \in Tasks :
        (SliceTask(t) /\ GotResponse(t) /\ resp[t].code \in 200..299)
        => \/ result[t].kind = "ok"
           \/ result[t] = Err("Failed to write GCODE file", 500)

\* C10: the step in which a slice ends in an error leaves every file of
\* the output directory as it was and creates none.
C10_ErrorLeavesFiles ==
    [][\A t \in Tasks :
           (/\ pc[t] # "done"
            /\ pc'[t] = "done"
            /\ req'[t].endpoint = "slice"
            /\ result'[t].kind # "ok")
           => fs' = fs]_vars

====
